---- MODULE Spec2Model ----
(***************************************************************************)
(* Model of util/winutil/winutil_windows.go: GetDesktopPID,                *)
(* EnableCurrentThreadPrivilege, StartProcessAsChild and                   *)
(* StartProcessAsCurrentGUIUser, run by goroutines that the Go scheduler   *)
(* places on OS threads.  Every platform call is one step; its outcome     *)
(* (success or a platform error) is chosen nondeterministically.           *)
(***************************************************************************)
EXTENDS Integers, Sequences, FiniteSets, TLC

\* ------------------------------------------------------------------ bounds
\* Longest environment block of a target process, and longest extraEnv.
MaxEnvLen == 2
\* The longest peer list of a Config.
MaxPeers == 3

\* ---------------------------------------------------------------- universe
Goroutines == {"g1", "g2"}
MainGoroutine == {"g1"}
Threads == {"T1", "T2", "T3"}
\* Window handles GetShellWindow can return (0: no shell window).
Hwnds == {0, 1, 2}
\* Process ids GetWindowThreadProcessId can report (0: none).
WindowPids == {0, 4}
\* Process ids a caller passes to StartProcessAsChild.
ParentPids == {4, 8}
ExePaths == {"a.exe", "b.exe"}
EnvEntries == {"A=1", "A=2"}
PrivilegeNames == {"SeDebugPrivilege", "NoSuchPrivilege", "Se\\0Debug"}

RECURSIVE SeqsUpTo(_, _)
SeqsUpTo(S, n) ==
    IF n = 0 THEN {<<>>}
    ELSE LET shorter == SeqsUpTo(S, n - 1)
         IN  shorter \cup {Append(s, x) : s \in {q \in shorter : Len(q) = n - 1}, x \in S}

EnvBlocks == SeqsUpTo(EnvEntries, MaxEnvLen)

\* The inputs an operation is called with are drawn from a record of sets:
\* every input for one goroutine alone, a few for concurrent goroutines.
AllInputs ==
    [exes |-> ExePaths, pids |-> ParentPids, extraEnvs |-> EnvBlocks,
     targetEnvs |-> EnvBlocks, names |-> PrivilegeNames, hwnds |-> Hwnds]
FewInputs ==
    [exes |-> {"a.exe"}, pids |-> {4}, extraEnvs |-> {<<"A=2">>},
     targetEnvs |-> {<<"A=1">>}, names |-> {"SeDebugPrivilege"}, hwnds |-> {0, 1}]

\* ------------------------------------------------------------------ errors
Nil == "<nil>"
ErrNoShell == "no Shell process is present"

\* fmt.Errorf(prefix + "%v", e): a new error whose message is the prefix
\* followed by the message of e.
Errorf(prefix, e) == prefix \o e

ERROR_ACCESS_DENIED == "ERROR_ACCESS_DENIED"
ERROR_NO_TOKEN == "ERROR_NO_TOKEN"
ERROR_NOT_ENOUGH_MEMORY == "ERROR_NOT_ENOUGH_MEMORY"
ERROR_NO_SUCH_PRIVILEGE == "ERROR_NO_SUCH_PRIVILEGE"
ERROR_INVALID_PARAMETER == "ERROR_INVALID_PARAMETER"
EINVAL == "EINVAL"
ErrNotFound == "exec: file not found"

\* The errors each platform call can report.
PlatformErrors(call) ==
    CASE call = "ImpersonateSelf"       -> {ERROR_NOT_ENOUGH_MEMORY}
      [] call = "OpenThreadToken"       -> {ERROR_ACCESS_DENIED}
      [] call = "LookupPrivilegeValue"  -> {ERROR_NO_SUCH_PRIVILEGE}
      [] call = "AdjustTokenPrivileges" -> {ERROR_ACCESS_DENIED}
      [] call = "OpenProcess"           -> {ERROR_ACCESS_DENIED, ERROR_INVALID_PARAMETER}
      [] call = "OpenProcessToken"      -> {ERROR_ACCESS_DENIED}
      [] call = "Environ"               -> {ERROR_INVALID_PARAMETER}
      [] call = "Start"                 -> {ErrNotFound}

Outcomes(call) == {Nil} \cup PlatformErrors(call)

\* ------------------------------------------------------------------- state
VARIABLES
    pc,        \* position of each goroutine
    op,        \* exported operation the goroutine is running
    args,      \* arguments of that operation
    m,         \* OS thread the goroutine runs on
    locked,    \* goroutine is wired to its OS thread (runtime.LockOSThread)
    imp,       \* per OS thread: the thread has an impersonation token
    tokPriv,   \* per OS thread: SeDebugPrivilege enabled on that token
    procPriv,  \* SeDebugPrivilege enabled on the process's primary token
    loc,       \* local variables of the running functions
    opens,     \* per goroutine and handle: number of opens in this invocation
    closes,    \* per goroutine and handle: number of closes in this invocation
    defers,    \* deferred calls of StartProcessAsChild, oldest first
    deferE,    \* deferred calls of EnableCurrentThreadPrivilege
    log,       \* platform and runtime calls made by this invocation, in order
    adjusts,   \* AdjustTokenPrivileges calls made by this invocation
    starts,    \* process creations (cmd.Start) attempted by this invocation
    result,    \* error returned by the exported operation
    reg,       \* the registry: the policy and the legacy key with their values
    lookup,    \* the last getPolicyString / getPolicyInteger call and its result
    config,    \* a wgcfg.Config (its Peers)
    found      \* the last PeerWithKey call and its result

vars == <<pc, op, args, m, locked, imp, tokPriv, procPriv, loc, opens, closes,
          defers, deferE, log, adjusts, starts, result, reg, lookup, config, found>>
\* The state the launch operations never touch.
pureVars == <<reg, lookup, config, found>>

HandleNames == {"t", "ph", "pt"}
\* A goroutine that is running no operation is on no thread.
NoThread == "-"
NoTok == [kind |-> "none", m |-> "-"]
NoArgs == [parentPID |-> 0, exePath |-> "", extraEnv |-> <<>>, name |-> ""]
NoLoc == [t |-> NoTok, luid |-> "", ph |-> 0, pt |-> 0, hwnd |-> 0, wpid |-> 0,
          desktop |-> 0, exePath |-> "", extraEnv |-> <<>>,
          env |-> <<>>, err |-> Nil, eerr |-> Nil, m0 |-> "-", imp0 |-> FALSE]

\* ---------------------------------------------- registry and wgcfg values
\* A registry value: none, a string (REG_SZ) or an integer (REG_DWORD).
NoValue == [type |-> "none", s |-> "", i |-> 0]
\* A registry key that does not exist holds no value.
RegNames == {"LogTarget"}
NoKey == [exists |-> FALSE, access |-> "read", vals |-> [n \in RegNames |-> NoValue]]
regBase == "SOFTWARE\\Tailscale IPN"
regPolicyBase == "SOFTWARE\\Policies\\Tailscale"
EmptyRegistry == [k \in {regBase, regPolicyBase} |-> NoKey]
NoLookup == [fn |-> "none", name |-> "", defs |-> "", defi |-> 0, s |-> "", i |-> 0,
             src |-> "none", logs |-> <<>>]
\* Peer{}: the zero Peer.
ZeroKey == "zero"
ZeroPeer == [PublicKey |-> ZeroKey, PersistentKeepalive |-> 0]
NoFound == [k |-> ZeroKey, peer |-> ZeroPeer, ok |-> FALSE, called |-> FALSE]

\* No invocation has started.
LaunchInit ==
    /\ pc = [g \in Goroutines |-> "idle"]
    /\ op = [g \in Goroutines |-> "none"]
    /\ args = [g \in Goroutines |-> NoArgs]
    /\ m = [g \in Goroutines |-> NoThread]
    /\ locked = [g \in Goroutines |-> FALSE]
    /\ imp = [t \in Threads |-> FALSE]
    /\ tokPriv = [t \in Threads |-> FALSE]
    /\ procPriv = FALSE
    /\ loc = [g \in Goroutines |-> NoLoc]
    /\ opens = [g \in Goroutines |-> [h \in HandleNames |-> 0]]
    /\ closes = [g \in Goroutines |-> [h \in HandleNames |-> 0]]
    /\ defers = [g \in Goroutines |-> <<>>]
    /\ deferE = [g \in Goroutines |-> <<>>]
    /\ log = [g \in Goroutines |-> <<>>]
    /\ adjusts = [g \in Goroutines |-> <<>>]
    /\ starts = [g \in Goroutines |-> <<>>]
    /\ result = [g \in Goroutines |-> Nil]

Init ==
    /\ LaunchInit
    /\ reg = EmptyRegistry
    /\ lookup = NoLookup
    /\ config = [Peers |-> <<>>]
    /\ found = NoFound

\* ----------------------------------------------------------------- helpers
\* A goroutine wired to a thread has that thread to itself: g can take a step
\* only on a thread no other goroutine is wired to.
Runnable(g) == \A h \in Goroutines \ {g} : ~(locked[h] /\ m[h] = m[g])
FreeThreads(g) == {t \in Threads : \A h \in Goroutines \ {g} : ~(locked[h] /\ m[h] = t)}

\* One entry of the call log: the call, the error it returned, the OS thread
\* it ran on, whether the goroutine was wired to that thread, and whether the
\* thread was impersonating when the call was made.
Entry(g, call, e) ==
    [call |-> call, err |-> e, m |-> m[g], pinned |-> locked[g], scoped |-> imp[m[g]]]

Last(s) == s[Len(s)]
Front(s) == SubSeq(s, 1, Len(s) - 1)
IsOpen(g, h) == opens[g][h] > closes[g][h]

procVars == <<imp, tokPriv, procPriv>>
handleVars == <<opens, closes>>
histVars == <<adjusts, starts>>

\* ---------------------------------------------------- entering an operation
CallStartProcessAsCurrentGUIUser(g, in) ==
    /\ pc[g] = "idle"
    /\ \E t \in FreeThreads(g), exe \in in.exes, x \in in.extraEnvs :
         /\ m' = [m EXCEPT ![g] = t]
         /\ args' = [args EXCEPT ![g] = [NoArgs EXCEPT !.exePath = exe, !.extraEnv = x]]
    /\ op' = [op EXCEPT ![g] = "StartProcessAsCurrentGUIUser"]
    /\ pc' = [pc EXCEPT ![g] = "GetDesktopPID"]
    /\ UNCHANGED <<pureVars, locked, procVars, loc, handleVars, defers, deferE, log, histVars, result>>

CallStartProcessAsChild(g, in) ==
    /\ pc[g] = "idle"
    /\ \E t \in FreeThreads(g), pid \in in.pids, exe \in in.exes, x \in in.extraEnvs :
         /\ m' = [m EXCEPT ![g] = t]
         /\ args' = [args EXCEPT ![g] =
                [NoArgs EXCEPT !.parentPID = pid, !.exePath = exe, !.extraEnv = x]]
    /\ op' = [op EXCEPT ![g] = "StartProcessAsChild"]
    /\ pc' = [pc EXCEPT ![g] = "LockOSThread"]
    /\ UNCHANGED <<pureVars, locked, procVars, loc, handleVars, defers, deferE, log, histVars, result>>

CallEnableCurrentThreadPrivilege(g, in) ==
    /\ pc[g] = "idle"
    /\ \E t \in FreeThreads(g), name \in in.names :
         /\ m' = [m EXCEPT ![g] = t]
         /\ args' = [args EXCEPT ![g] = [NoArgs EXCEPT !.name = name]]
    /\ op' = [op EXCEPT ![g] = "EnableCurrentThreadPrivilege"]
    /\ pc' = [pc EXCEPT ![g] = "OpenThreadToken"]
    /\ UNCHANGED <<pureVars, locked, procVars, loc, handleVars, defers, deferE, log, histVars, result>>

CallGetDesktopPID(g) ==
    /\ pc[g] = "idle"
    /\ \E t \in FreeThreads(g) : m' = [m EXCEPT ![g] = t]
    /\ op' = [op EXCEPT ![g] = "GetDesktopPID"]
    /\ pc' = [pc EXCEPT ![g] = "GetDesktopPID"]
    /\ UNCHANGED <<pureVars, args, locked, procVars, loc, handleVars, defers, deferE, log, histVars, result>>

\* The Go scheduler may move a goroutine that is not wired to its thread to
\* any thread that no goroutine is wired to, between any two of its steps.
Migrate(g) ==
    /\ pc[g] \notin {"idle", "done"}
    /\ ~locked[g]
    /\ \E t \in FreeThreads(g) \ {m[g]} : m' = [m EXCEPT ![g] = t]
    /\ UNCHANGED <<pureVars, pc, op, args, locked, procVars, loc, handleVars, defers, deferE,
                   log, histVars, result>>

\* ------------------------------------------------------------ GetDesktopPID
\* GetDesktopPID without the "hwnd == 0" test of lines 32-34.
GetDesktopPID_NoShellCheck(hwnd, wpid) ==
    IF wpid = 0
    THEN [pid |-> 0, err |-> Errorf("invalid PID for HWND ", ToString(hwnd)),
          calls |-> <<"GetShellWindow", "GetWindowThreadProcessId">>]
    ELSE [pid |-> wpid, err |-> Nil,
          calls |-> <<"GetShellWindow", "GetWindowThreadProcessId">>]

\* GetDesktopPID without the "pid == 0" test of lines 38-40.
GetDesktopPID_NoPidCheck(hwnd, wpid) ==
    IF hwnd = 0
    THEN [pid |-> 0, err |-> ErrNoShell, calls |-> <<"GetShellWindow">>]
    ELSE [pid |-> wpid, err |-> Nil,
          calls |-> <<"GetShellWindow", "GetWindowThreadProcessId">>]

\* hwnd: what GetShellWindow returns; wpid: the process id that
\* GetWindowThreadProcessId stores for that window.
GetDesktopPID(hwnd, wpid) ==
    IF hwnd = 0
    THEN [pid |-> 0, err |-> ErrNoShell, calls |-> <<"GetShellWindow">>]
    ELSE IF wpid = 0
    THEN [pid |-> 0, err |-> Errorf("invalid PID for HWND ", ToString(hwnd)),
          calls |-> <<"GetShellWindow", "GetWindowThreadProcessId">>]
    ELSE [pid |-> wpid, err |-> Nil,
          calls |-> <<"GetShellWindow", "GetWindowThreadProcessId">>]

\* StartProcessAsCurrentGUIUser, lines 240-243: the locator's error wrapped.
WrapLocator(e) == Errorf("failed to find desktop: ", e)
\* The spawner's error returned as it is, without the wrapping of line 246.
WrapSpawner_Bare(e) == e

\* StartProcessAsCurrentGUIUser, lines 244-248: the spawner's error wrapped.
WrapSpawner(e) == IF e # Nil THEN Errorf("failed to start executable: ", e) ELSE Nil

\* The spawner called without the caller's extra environment.
SpawnerArgs_NoExtraEnv(desktop, exePath, extraEnv) ==
    [NoArgs EXCEPT !.parentPID = desktop, !.exePath = exePath]

\* The arguments of the call at line 244.
SpawnerArgs(desktop, exePath, extraEnv) ==
    [NoArgs EXCEPT !.parentPID = desktop, !.exePath = exePath, !.extraEnv = extraEnv]

DoGetDesktopPID(g, in) ==
    /\ pc[g] = "GetDesktopPID"
    /\ Runnable(g)
    /\ \E hwnd \in in.hwnds, wpid \in WindowPids :
         /\ hwnd = 0 => wpid = 0   \* no window, no owning process
         /\ LET r == GetDesktopPID(hwnd, wpid) IN
            /\ log' = [log EXCEPT ![g] =
                   @ \o [i \in 1..Len(r.calls) |-> Entry(g, r.calls[i], Nil)]]
            /\ loc' = [loc EXCEPT ![g].desktop = r.pid, ![g].hwnd = hwnd,
                                   ![g].wpid = wpid, ![g].exePath = args[g].exePath,
                                   ![g].extraEnv = args[g].extraEnv]
            /\ IF op[g] = "GetDesktopPID"
               THEN /\ result' = [result EXCEPT ![g] = r.err]
                    /\ pc' = [pc EXCEPT ![g] = "done"]
                    /\ m' = [m EXCEPT ![g] = NoThread]
                    /\ args' = args
               ELSE IF r.err # Nil
               THEN /\ result' = [result EXCEPT ![g] = WrapLocator(r.err)]
                    /\ pc' = [pc EXCEPT ![g] = "done"]
                    /\ m' = [m EXCEPT ![g] = NoThread]
                    /\ args' = args
               ELSE /\ result' = result
                    /\ pc' = [pc EXCEPT ![g] = "LockOSThread"]
                    /\ m' = m
                    /\ args' = [args EXCEPT ![g] =
                           SpawnerArgs(r.pid, args[g].exePath, args[g].extraEnv)]
    /\ UNCHANGED <<pureVars, op, locked, procVars, handleVars, defers, deferE, histVars>>

\* ------------------------------------------------------ StartProcessAsChild
\* StartProcessAsChild without runtime.LockOSThread: the goroutine stays free
\* to move between threads.
NotWired == FALSE

\* runtime.LockOSThread wires the goroutine to its current thread.
WiredByLockOSThread == TRUE

\* The thread pin never released.
DeferUnlockOSThread_Missing(ds) == ds

\* defer runtime.UnlockOSThread()
DeferUnlockOSThread(ds) == Append(ds, "UnlockOSThread")

LockOSThread(g) ==
    /\ pc[g] = "LockOSThread"
    /\ Runnable(g)
    /\ locked' = [locked EXCEPT ![g] = WiredByLockOSThread]
    /\ defers' = [defers EXCEPT ![g] = DeferUnlockOSThread(@)]
    /\ log' = [log EXCEPT ![g] = Append(@, Entry(g, "LockOSThread", Nil))]
    /\ loc' = [loc EXCEPT ![g].m0 = m[g], ![g].imp0 = imp[m[g]]]
    /\ pc' = [pc EXCEPT ![g] = "ImpersonateSelf"]
    /\ UNCHANGED <<pureVars, op, args, m, procVars, handleVars, deferE, histVars, result>>

\* The error check of lines 200-202 left out.
IfErrReturn_NotAfterElevation(step, e, next) ==
    IF e # Nil /\ step # "EnableCurrentThreadPrivilege" THEN "unwind" ELSE next

\* The error check of lines 220-223 left out.
IfErrReturn_NotAfterEnviron(step, e, next) ==
    IF e # Nil /\ step # "Environ" THEN "unwind" ELSE next

\* A failed process open tried again in place of the return of lines 205-209.
IfErrReturn_Retry(step, e, next) ==
    IF e # Nil THEN (IF step = "OpenProcess" THEN step ELSE "unwind") ELSE next

\* "if err != nil { return err }" after the named step of StartProcessAsChild.
IfErrReturn(step, e, next) == IF e # Nil THEN "unwind" ELSE next

\* RevertToSelf called on the success path only: nothing is deferred.
DeferRevertToSelf_Missing(ds) == ds

\* defer windows.RevertToSelf()
DeferRevertToSelf(ds) == Append(ds, "RevertToSelf")

ImpersonateSelf(g) ==
    /\ pc[g] = "ImpersonateSelf"
    /\ Runnable(g)
    /\ \E e \in Outcomes("ImpersonateSelf") :
         /\ log' = [log EXCEPT ![g] = Append(@, Entry(g, "ImpersonateSelf", e))]
         /\ loc' = [loc EXCEPT ![g].err = e]
         /\ pc' = [pc EXCEPT ![g] = IfErrReturn("ImpersonateSelf", e, "OpenThreadToken")]
         /\ IF e = Nil
            THEN /\ imp' = [imp EXCEPT ![m[g]] = TRUE]
                 /\ tokPriv' = [tokPriv EXCEPT ![m[g]] = procPriv]
                 /\ defers' = [defers EXCEPT ![g] = DeferRevertToSelf(@)]
                 /\ args' = [args EXCEPT ![g].name = "SeDebugPrivilege"]
            ELSE UNCHANGED <<imp, tokPriv, defers, args>>
    /\ UNCHANGED <<pureVars, op, m, locked, procPriv, handleVars, deferE, histVars, result>>

\* --------------------------------------------- EnableCurrentThreadPrivilege
\* The process's primary token opened in place of the thread's token.
CurrentProcessToken(thread) == [kind |-> "process", m |-> thread]

\* windows.OpenThreadToken(windows.CurrentThread(), ...): the token opened is
\* the impersonation token of the thread the call runs on.
CurrentThreadToken(thread) == [kind |-> "thread", m |-> thread]

\* A thread that is not impersonating has no token: OpenThreadToken then
\* fails with ERROR_NO_TOKEN whatever else happens.
OpenThreadTokenOutcomes(thread) ==
    IF imp[thread] THEN Outcomes("OpenThreadToken") ELSE {ERROR_NO_TOKEN}

\* defer t.Close()
DeferTokenClose(ds) == Append(ds, "t.Close")

OpenThreadToken(g) ==
    /\ pc[g] = "OpenThreadToken"
    /\ Runnable(g)
    /\ \E e \in OpenThreadTokenOutcomes(m[g]) :
         /\ log' = [log EXCEPT ![g] = Append(@, Entry(g, "OpenThreadToken", e))]
         /\ IF e = Nil
            THEN /\ loc' = [loc EXCEPT ![g].t = CurrentThreadToken(m[g]), ![g].eerr = Nil]
                 /\ opens' = [opens EXCEPT ![g]["t"] = @ + 1]
                 /\ deferE' = [deferE EXCEPT ![g] = DeferTokenClose(@)]
                 /\ pc' = [pc EXCEPT ![g] = "LookupPrivilegeValue"]
            ELSE /\ loc' = [loc EXCEPT ![g].eerr = e]
                 /\ pc' = [pc EXCEPT ![g] = "ectp_return"]
                 /\ UNCHANGED <<opens, deferE>>
    /\ UNCHANGED <<pureVars, op, args, m, locked, procVars, closes, defers, histVars, result>>

\* syscall.UTF16PtrFromString fails with EINVAL when the string holds a NUL.
NamesWithNUL == {"Se\\0Debug"}
UTF16PtrFromString(name) == IF name \in NamesWithNUL THEN EINVAL ELSE Nil

\* The privileges the system knows by name.
KnownPrivileges == {"SeDebugPrivilege"}
LookupOutcomes(name) ==
    IF name \in KnownPrivileges THEN Outcomes("LookupPrivilegeValue")
    ELSE {ERROR_NO_SUCH_PRIVILEGE}

LookupPrivilegeValue(g) ==
    /\ pc[g] = "LookupPrivilegeValue"
    /\ Runnable(g)
    /\ IF UTF16PtrFromString(args[g].name) # Nil
       THEN /\ loc' = [loc EXCEPT ![g].eerr = UTF16PtrFromString(args[g].name)]
            /\ pc' = [pc EXCEPT ![g] = "ectp_return"]
            /\ log' = log
       ELSE \E e \in LookupOutcomes(args[g].name) :
            /\ log' = [log EXCEPT ![g] = Append(@, Entry(g, "LookupPrivilegeValue", e))]
            /\ IF e = Nil
               THEN /\ loc' = [loc EXCEPT ![g].luid = args[g].name]
                    /\ pc' = [pc EXCEPT ![g] = "AdjustTokenPrivileges"]
               ELSE /\ loc' = [loc EXCEPT ![g].eerr = e]
                    /\ pc' = [pc EXCEPT ![g] = "ectp_return"]
    /\ UNCHANGED <<pureVars, op, args, m, locked, procVars, handleVars, defers, deferE,
                   histVars, result>>

\* The structure as declared, PrivilegeCount and Attributes never set.
Tokenprivileges_ZeroValue(luid) ==
    [PrivilegeCount |-> 0,
     Privileges |-> <<[Luid |-> luid, Attributes |-> "0"]>>]

\* The windows.Tokenprivileges value built at lines 158-169.
Tokenprivileges(luid) ==
    [PrivilegeCount |-> 1,
     Privileges |-> <<[Luid |-> luid, Attributes |-> "SE_PRIVILEGE_ENABLED"]>>]

\* AdjustTokenPrivileges can return success without having assigned the
\* privilege (the token does not hold it): `assigned` is that outcome.
AdjustTokenPrivileges(g) ==
    /\ pc[g] = "AdjustTokenPrivileges"
    /\ Runnable(g)
    /\ \E e \in Outcomes("AdjustTokenPrivileges"), assigned \in BOOLEAN :
         LET t  == loc[g].t
             tp == Tokenprivileges(loc[g].luid)
             enables == e = Nil /\ assigned /\ tp.PrivilegeCount = 1
                        /\ tp.Privileges[1].Attributes = "SE_PRIVILEGE_ENABLED"
         IN
         /\ e # Nil => ~assigned
         /\ log' = [log EXCEPT ![g] = Append(@, Entry(g, "AdjustTokenPrivileges", e))]
         /\ adjusts' = [adjusts EXCEPT ![g] = Append(@,
                [token |-> t, tp |-> tp, err |-> e, m |-> m[g],
                 scoped |-> imp[m[g]], tokenOpen |-> IsOpen(g, "t"),
                 enabled |-> enables])]
         /\ tokPriv' = IF enables /\ t.kind = "thread" /\ imp[t.m]
                       THEN [tokPriv EXCEPT ![t.m] = TRUE] ELSE tokPriv
         /\ procPriv' = IF enables /\ t.kind = "process" THEN TRUE ELSE procPriv
         /\ loc' = [loc EXCEPT ![g].eerr = e]
         /\ pc' = [pc EXCEPT ![g] = "ectp_return"]
    /\ UNCHANGED <<pureVars, op, args, m, locked, imp, handleVars, defers, deferE, starts, result>>

\* EnableCurrentThreadPrivilege returns: its deferred t.Close runs, then the
\* caller goes on (StartProcessAsChild, lines 199-202) or the operation ends.
EnableCurrentThreadPrivilegeReturn(g) ==
    /\ pc[g] = "ectp_return"
    /\ Runnable(g)
    /\ IF deferE[g] # <<>>
       THEN /\ closes' = [closes EXCEPT ![g]["t"] = @ + Len(deferE[g])]
            /\ log' = [log EXCEPT ![g] = Append(@, Entry(g, "t.Close", Nil))]
       ELSE UNCHANGED <<closes, log>>
    /\ deferE' = [deferE EXCEPT ![g] = <<>>]
    /\ IF op[g] = "EnableCurrentThreadPrivilege"
       THEN /\ result' = [result EXCEPT ![g] = loc[g].eerr]
            /\ pc' = [pc EXCEPT ![g] = "done"]
            /\ m' = [m EXCEPT ![g] = NoThread]
            /\ loc' = loc
       ELSE /\ result' = result
            /\ m' = m
            /\ loc' = [loc EXCEPT ![g].err = loc[g].eerr]
            /\ pc' = [pc EXCEPT ![g] =
                   IfErrReturn("EnableCurrentThreadPrivilege", loc[g].eerr, "OpenProcess")]
    /\ UNCHANGED <<pureVars, op, args, locked, procVars, opens, defers, histVars>>

\* ----------------------------------- StartProcessAsChild, lines 204 to 233
\* The target process handle never closed.
DeferCloseHandle_Missing(ds) == ds

\* defer windows.CloseHandle(ph)
DeferCloseHandle(ds) == Append(ds, "CloseHandle")
\* The target process token never closed.
DeferProcessTokenClose_Missing(ds) == ds

\* defer pt.Close()
DeferProcessTokenClose(ds) == Append(ds, "pt.Close")

OpenProcess(g) ==
    /\ pc[g] = "OpenProcess"
    /\ Runnable(g)
    /\ \E e \in Outcomes("OpenProcess") :
         /\ log' = [log EXCEPT ![g] = Append(@, Entry(g, "OpenProcess", e))]
         /\ pc' = [pc EXCEPT ![g] = IfErrReturn("OpenProcess", e, "OpenProcessToken")]
         /\ IF e = Nil
            THEN /\ loc' = [loc EXCEPT ![g].err = e, ![g].ph = args[g].parentPID]
                 /\ opens' = [opens EXCEPT ![g]["ph"] = @ + 1]
                 /\ defers' = [defers EXCEPT ![g] = DeferCloseHandle(@)]
            ELSE /\ loc' = [loc EXCEPT ![g].err = e]
                 /\ UNCHANGED <<opens, defers>>
    /\ UNCHANGED <<pureVars, op, args, m, locked, procVars, closes, deferE, histVars, result>>

OpenProcessToken(g) ==
    /\ pc[g] = "OpenProcessToken"
    /\ Runnable(g)
    /\ \E e \in Outcomes("OpenProcessToken") :
         /\ log' = [log EXCEPT ![g] = Append(@, Entry(g, "OpenProcessToken", e))]
         /\ pc' = [pc EXCEPT ![g] = IfErrReturn("OpenProcessToken", e, "Environ")]
         /\ IF e = Nil
            THEN /\ loc' = [loc EXCEPT ![g].err = e, ![g].pt = loc[g].ph]
                 /\ opens' = [opens EXCEPT ![g]["pt"] = @ + 1]
                 /\ defers' = [defers EXCEPT ![g] = DeferProcessTokenClose(@)]
            ELSE /\ loc' = [loc EXCEPT ![g].err = e]
                 /\ UNCHANGED <<opens, defers>>
    /\ UNCHANGED <<pureVars, op, args, m, locked, procVars, closes, deferE, histVars, result>>

\* pt.Environ(false): the environment block of the user of the target token,
\* any block of at most MaxEnvLen entries (drawn from in.targetEnvs).
Environ(g, in) ==
    /\ pc[g] = "Environ"
    /\ Runnable(g)
    /\ \E e \in Outcomes("Environ"), E \in in.targetEnvs :
         /\ e # Nil => E = <<>>
         /\ log' = [log EXCEPT ![g] = Append(@, Entry(g, "Environ", e))]
         /\ pc' = [pc EXCEPT ![g] = IfErrReturn("Environ", e, "Start")]
         /\ loc' = [loc EXCEPT ![g].err = e, ![g].env = E]
    /\ UNCHANGED <<pureVars, op, args, m, locked, procVars, handleVars, defers, deferE,
                   histVars, result>>

\* extraEnv put in front of the target's environment.
MergeEnv_Prepend(env, extraEnv) == extraEnv \o env

\* env = append(env, extraEnv...)
MergeEnv(env, extraEnv) == env \o extraEnv

\* The process attributes without a parent: the child of the caller.
SysProcAttr_NoParent(ph) == [ParentProcess |-> 0]

\* sys := &syscall.SysProcAttr{ParentProcess: syscall.Handle(ph)}
SysProcAttr(ph) == [ParentProcess |-> ph]

\* Lines 224-232: the merged environment, the parent-process attribute, and
\* cmd.Start(), whose error is the function's return value.
Start(g) ==
    /\ pc[g] = "Start"
    /\ Runnable(g)
    /\ \E e \in Outcomes("Start") :
         LET env == MergeEnv(loc[g].env, args[g].extraEnv)
             sys == SysProcAttr(loc[g].ph)
         IN
         /\ log' = [log EXCEPT ![g] = Append(@, Entry(g, "Start", e))]
         /\ starts' = [starts EXCEPT ![g] = Append(@,
                [exePath |-> args[g].exePath, env |-> env, sys |-> sys, err |-> e,
                 targetEnv |-> loc[g].env,
                 phOpen |-> IsOpen(g, "ph"), ptOpen |-> IsOpen(g, "pt"),
                 scoped |-> imp[m[g]], pinned |-> locked[g]])]
         /\ loc' = [loc EXCEPT ![g].err = e, ![g].env = env]
         /\ pc' = [pc EXCEPT ![g] = "unwind"]
    /\ UNCHANGED <<pureVars, op, args, m, locked, procVars, handleVars, defers, deferE,
                   adjusts, result>>

\* Impersonation kept as one process-wide flag: reverting ends it everywhere.
RevertToSelf_Global(im, thread) == [t \in DOMAIN im |-> FALSE]

\* A revert that leaves the thread's token, and what is enabled on it, in place.
RevertToSelf_KeepsToken(im, thread) == im

\* windows.RevertToSelf ends the impersonation of the thread it runs on; the
\* impersonation token, with whatever was enabled on it, is dropped.
RevertToSelf(im, thread) == [im EXCEPT ![thread] = FALSE]

\* StartProcessAsChild returns: its deferred calls run, last deferred first,
\* one step each; after the last of them the caller has the error
\* (StartProcessAsCurrentGUIUser wraps it, lines 245-248).
Unwind(g) ==
    /\ pc[g] = "unwind"
    /\ Runnable(g)
    /\ defers[g] # <<>>
    /\ LET d == Last(defers[g]) IN
         /\ defers' = [defers EXCEPT ![g] = Front(@)]
         /\ log' = [log EXCEPT ![g] = Append(@, Entry(g, d, Nil))]
         /\ locked' = IF d = "UnlockOSThread" THEN [locked EXCEPT ![g] = FALSE] ELSE locked
         /\ imp' = IF d = "RevertToSelf" THEN RevertToSelf(imp, m[g]) ELSE imp
         /\ tokPriv' = IF d = "RevertToSelf" THEN RevertToSelf(tokPriv, m[g]) ELSE tokPriv
         /\ closes' = IF d = "CloseHandle" THEN [closes EXCEPT ![g]["ph"] = @ + 1]
                      ELSE IF d = "pt.Close" THEN [closes EXCEPT ![g]["pt"] = @ + 1]
                      ELSE closes
    /\ IF Len(defers[g]) = 1
       THEN /\ result' = [result EXCEPT ![g] =
                   IF op[g] = "StartProcessAsCurrentGUIUser"
                   THEN WrapSpawner(loc[g].err) ELSE loc[g].err]
            /\ pc' = [pc EXCEPT ![g] = "done"]
            /\ m' = [m EXCEPT ![g] = NoThread]
       ELSE UNCHANGED <<result, pc, m>>
    /\ UNCHANGED <<pureVars, op, args, procPriv, loc, opens, deferE, histVars>>

\* The caller has the result; the goroutine is free for the next operation.
Return(g) ==
    /\ pc[g] = "done"
    /\ pc' = [pc EXCEPT ![g] = "idle"]
    /\ op' = [op EXCEPT ![g] = "none"]
    /\ args' = [args EXCEPT ![g] = NoArgs]
    /\ loc' = [loc EXCEPT ![g] = NoLoc]
    /\ opens' = [opens EXCEPT ![g] = [h \in HandleNames |-> 0]]
    /\ closes' = [closes EXCEPT ![g] = [h \in HandleNames |-> 0]]
    /\ log' = [log EXCEPT ![g] = <<>>]
    /\ adjusts' = [adjusts EXCEPT ![g] = <<>>]
    /\ starts' = [starts EXCEPT ![g] = <<>>]
    /\ result' = [result EXCEPT ![g] = Nil]
    /\ UNCHANGED <<pureVars, m, locked, procVars, defers, deferE>>

\* ---------------------------------------------------- registry lookups
launchVars == <<pc, op, args, m, locked, imp, tokPriv, procPriv, loc, opens, closes,
                defers, deferE, log, adjusts, starts, result>>

ErrNotExist == "The system cannot find the file specified."
ErrUnexpectedType == "unexpected key value type"

\* The stores a lookup can meet: each of the two keys is missing, or exists
\* and can or cannot be opened for reading, and holds under the name no
\* value, a string (REG_SZ) or an integer (REG_DWORD).
RegStrings == {"def", "file"}
RegInts == {0, 7}
DefaultStrings == {"def", "none"}
DefaultInts == {0, 3}
Cells ==
    {NoValue} \cup {[type |-> "SZ", s |-> x, i |-> 0] : x \in RegStrings}
              \cup {[type |-> "DWORD", s |-> "", i |-> n] : n \in RegInts}
Keys ==
    {NoKey} \cup {[exists |-> TRUE, access |-> a, vals |-> [n \in RegNames |-> c]] :
                     a \in {"read", "denied"}, c \in Cells}
Registries == [{regBase, regPolicyBase} -> Keys]

\* registry.OpenKey(registry.LOCAL_MACHINE, subKey, registry.READ)
OpenKey(store, subKey) ==
    IF ~store[subKey].exists THEN ErrNotExist
    ELSE IF store[subKey].access = "denied" THEN ERROR_ACCESS_DENIED
    ELSE Nil

\* key.GetStringValue(name): the value must exist and be a string.
GetStringValue(key, name) ==
    IF key.vals[name].type = "none" THEN [val |-> "", err |-> ErrNotExist]
    ELSE IF key.vals[name].type # "SZ" THEN [val |-> "", err |-> ErrUnexpectedType]
    ELSE [val |-> key.vals[name].s, err |-> Nil]

\* key.GetIntegerValue(name): the value must exist and be an integer.
GetIntegerValue(key, name) ==
    IF key.vals[name].type = "none" THEN [val |-> 0, err |-> ErrNotExist]
    ELSE IF key.vals[name].type # "DWORD" THEN [val |-> 0, err |-> ErrUnexpectedType]
    ELSE [val |-> key.vals[name].i, err |-> Nil]

\* Lines 79-95. logs: what log.Printf was given.
getRegStringInternal(store, subKey, name) ==
    IF OpenKey(store, subKey) # Nil
    THEN [val |-> "", err |-> OpenKey(store, subKey),
          logs |-> <<"registry.OpenKey(" \o subKey \o "): " \o OpenKey(store, subKey)>>]
    ELSE LET r == GetStringValue(store[subKey], name) IN
         [val |-> r.val, err |-> r.err,
          logs |-> IF r.err # Nil /\ r.err # ErrNotExist
                   THEN <<"registry.GetStringValue(" \o name \o "): " \o r.err>>
                   ELSE <<>>]

\* Lines 97-113.
getRegIntegerInternal(store, subKey, name) ==
    IF OpenKey(store, subKey) # Nil
    THEN [val |-> 0, err |-> OpenKey(store, subKey),
          logs |-> <<"registry.OpenKey(" \o subKey \o "): " \o OpenKey(store, subKey)>>]
    ELSE LET r == GetIntegerValue(store[subKey], name) IN
         [val |-> r.val, err |-> r.err,
          logs |-> IF r.err # Nil /\ r.err # ErrNotExist
                   THEN <<"registry.GetIntegerValue(" \o name \o "): " \o r.err>>
                   ELSE <<>>]

\* The legacy key never consulted.
getRegString_NoLegacy(store, name, defval) ==
    [val |-> defval, src |-> "default", logs |-> <<>>]

\* Lines 63-69. src: which of the return statements gave the value.
getRegString(store, name, defval) ==
    LET r == getRegStringInternal(store, regBase, name) IN
    IF r.err # Nil THEN [val |-> defval, src |-> "default", logs |-> r.logs]
    ELSE [val |-> r.val, src |-> "legacy", logs |-> r.logs]

\* Lines 71-77.
getRegInteger(store, name, defval) ==
    LET r == getRegIntegerInternal(store, regBase, name) IN
    IF r.err # Nil THEN [val |-> defval, src |-> "default", logs |-> r.logs]
    ELSE [val |-> r.val, src |-> "legacy", logs |-> r.logs]

\* Lines 45-52.
getPolicyString(store, name, defval) ==
    LET r == getRegStringInternal(store, regPolicyBase, name) IN
    IF r.err # Nil
    THEN [getRegString(store, name, defval) EXCEPT !.logs = r.logs \o @]
    ELSE [val |-> r.val, src |-> "policy", logs |-> r.logs]

\* Lines 54-61.
getPolicyInteger(store, name, defval) ==
    LET r == getRegIntegerInternal(store, regPolicyBase, name) IN
    IF r.err # Nil
    THEN [getRegInteger(store, name, defval) EXCEPT !.logs = r.logs \o @]
    ELSE [val |-> r.val, src |-> "policy", logs |-> r.logs]

\* Every store the lookups can meet, before any lookup.
InitPolicy ==
    /\ LaunchInit
    /\ reg \in Registries
    /\ lookup = NoLookup
    /\ config = [Peers |-> <<>>]
    /\ found = NoFound

CallGetPolicyString ==
    /\ \E name \in RegNames, defval \in DefaultStrings :
         LET r == getPolicyString(reg, name, defval) IN
         lookup' = [fn |-> "getPolicyString", name |-> name, defs |-> defval, defi |-> 0,
                    s |-> r.val, i |-> 0, src |-> r.src, logs |-> r.logs]
    /\ UNCHANGED <<reg, config, found, launchVars>>

CallGetPolicyInteger ==
    /\ \E name \in RegNames, defval \in DefaultInts :
         LET r == getPolicyInteger(reg, name, defval) IN
         lookup' = [fn |-> "getPolicyInteger", name |-> name, defs |-> "", defi |-> defval,
                    s |-> "", i |-> r.val, src |-> r.src, logs |-> r.logs]
    /\ UNCHANGED <<reg, config, found, launchVars>>

NextPolicy == CallGetPolicyString \/ CallGetPolicyInteger
SpecPolicy == InitPolicy /\ [][NextPolicy]_vars

\* ------------------------------------------------------ Config.PeerWithKey
\* Peers as far as PeerWithKey can tell them apart: the key it compares and
\* one more field, so that two peers with one key can differ.
PublicKeys == {ZeroKey, "k1", "k2"}
Keepalives == {0, 25}
PeerValues == [PublicKey : PublicKeys, PersistentKeepalive : Keepalives]
Configs == {[Peers |-> ps] : ps \in UNION {[1..n -> PeerValues] : n \in 0..MaxPeers}}

\* The loop of lines 297-301, from index i on.
RECURSIVE PeerWithKeyLoop(_, _, _)
PeerWithKeyLoop(peers, i, k) ==
    IF i > Len(peers) THEN [peer |-> ZeroPeer, ok |-> FALSE]
    ELSE IF peers[i].PublicKey = k THEN [peer |-> peers[i], ok |-> TRUE]
    ELSE PeerWithKeyLoop(peers, i + 1, k)

\* The loop without its return: the last peer with the key wins.
PeerWithKey_LastMatch(cfg, k) ==
    LET hits == {i \in DOMAIN cfg.Peers : cfg.Peers[i].PublicKey = k} IN
    IF hits = {} THEN [peer |-> ZeroPeer, ok |-> FALSE]
    ELSE [peer |-> cfg.Peers[CHOOSE i \in hits : \A j \in hits : j <= i], ok |-> TRUE]

\* Lines 296-303.
PeerWithKey(cfg, k) == PeerWithKeyLoop(cfg.Peers, 1, k)

\* Every Config up to the bound, before any call.
InitPeer ==
    /\ LaunchInit
    /\ reg = EmptyRegistry
    /\ lookup = NoLookup
    /\ config \in Configs
    /\ found = NoFound

\* config.PeerWithKey(k): the receiver is a copy, nothing is assigned to it.
CallPeerWithKey ==
    /\ \E k \in PublicKeys :
         found' = [k |-> k, peer |-> PeerWithKey(config, k).peer,
                   ok |-> PeerWithKey(config, k).ok, called |-> TRUE]
    /\ UNCHANGED <<reg, lookup, config, launchVars>>

NextPeer == CallPeerWithKey
SpecPeer == InitPeer /\ [][NextPeer]_vars

\* ----------------------------------------------------------- specifications
Step(g, in) ==
    \/ CallStartProcessAsCurrentGUIUser(g, in)
    \/ CallStartProcessAsChild(g, in)
    \/ CallEnableCurrentThreadPrivilege(g, in)
    \/ CallGetDesktopPID(g)
    \/ Migrate(g)
    \/ DoGetDesktopPID(g, in)
    \/ LockOSThread(g)
    \/ ImpersonateSelf(g)
    \/ OpenThreadToken(g)
    \/ LookupPrivilegeValue(g)
    \/ AdjustTokenPrivileges(g)
    \/ EnableCurrentThreadPrivilegeReturn(g)
    \/ OpenProcess(g)
    \/ OpenProcessToken(g)
    \/ Environ(g, in)
    \/ Start(g)
    \/ Unwind(g)
    \/ Return(g)

\* One goroutine, every input.
Next == \E g \in MainGoroutine : Step(g, AllInputs)
Spec == Init /\ [][Next]_vars

\* The steps inside an invocation: each is a call that returns, or the code
\* between two calls. An invocation runs synchronously on its goroutine, so
\* while it has a step to take it takes one; when the next invocation starts,
\* and whether the scheduler moves the goroutine, is left open.
Progress(g) ==
    \/ DoGetDesktopPID(g, AllInputs)
    \/ LockOSThread(g)
    \/ ImpersonateSelf(g)
    \/ OpenThreadToken(g)
    \/ LookupPrivilegeValue(g)
    \/ AdjustTokenPrivileges(g)
    \/ EnableCurrentThreadPrivilegeReturn(g)
    \/ OpenProcess(g)
    \/ OpenProcessToken(g)
    \/ Environ(g, AllInputs)
    \/ Start(g)
    \/ Unwind(g)
SpecLive == Init /\ [][Next]_vars /\ \A g \in MainGoroutine : WF_vars(Progress(g))

\* Concurrent invocations, few inputs.
NextConc == \E g \in Goroutines : Step(g, FewInputs)
SpecConc == Init /\ [][NextConc]_vars

\* ------------------------------------------------------ reading the history
LaunchOps == {"StartProcessAsChild", "StartProcessAsCurrentGUIUser"}
Done(g) == pc[g] = "done"
Launched(g) == op[g] \in LaunchOps
Made(g, call) == {i \in DOMAIN log[g] : log[g][i].call = call}
Succeeded(g, call) == \E i \in Made(g, call) : log[g][i].err = Nil
FailedAt(g, call) == \E i \in Made(g, call) : log[g][i].err # Nil
\* The steps of the launch sequence, and the calls that release something.
SequenceCalls == {"ImpersonateSelf", "OpenThreadToken", "LookupPrivilegeValue",
                  "AdjustTokenPrivileges", "OpenProcess", "OpenProcessToken",
                  "Environ", "Start"}
ReleaseCalls == {"t.Close", "CloseHandle", "pt.Close", "RevertToSelf", "UnlockOSThread"}
ElevationCalls == {"OpenThreadToken", "LookupPrivilegeValue", "AdjustTokenPrivileges"}

\* ------------------------------------------------------------------- claims

\* C1: whatever step of StartProcessAsChild fails, or none, every handle the
\* invocation opened (thread token t, target process ph, target token pt) is
\* closed exactly once by the time it returns: no handle is closed more often
\* than it was opened, and at the return none is still open.
C1_HandlesReleasedOnce ==
    \A g \in Goroutines : \A h \in HandleNames :
        /\ opens[g][h] <= 1
        /\ closes[g][h] <= opens[g][h]
        /\ (Done(g) /\ Launched(g)) => closes[g][h] = opens[g][h]

\* An invocation whose process creation failed after all three handles were
\* opened has returned with each of them closed once.
C1_Witness ==
    \E g \in Goroutines :
        /\ Done(g) /\ op[g] = "StartProcessAsChild" /\ FailedAt(g, "Start")
        /\ \A h \in HandleNames : opens[g][h] = 1 /\ closes[g][h] = 1

\* C2: when ImpersonateSelf succeeded, RevertToSelf has run exactly once, on
\* the thread that began impersonating, by the time the invocation returns,
\* also when privilege elevation failed; and that thread's impersonation state
\* is then what it was when the invocation started.
C2_RevertOnce ==
    \A g \in Goroutines :
        (Done(g) /\ Launched(g) /\ Succeeded(g, "ImpersonateSelf")) =>
            /\ Cardinality(Made(g, "RevertToSelf")) = 1
            /\ \A i \in Made(g, "RevertToSelf") : log[g][i].m = loc[g].m0
            /\ imp[loc[g].m0] = loc[g].imp0

\* An invocation whose privilege lookup failed has returned after reverting.
C2_Witness ==
    \E g \in Goroutines :
        /\ Done(g) /\ op[g] = "StartProcessAsChild"
        /\ FailedAt(g, "LookupPrivilegeValue")
        /\ Cardinality(Made(g, "RevertToSelf")) = 1

\* C3: every privilege adjustment is made while the calling thread is
\* impersonating and on that thread's impersonation token, and the process's
\* primary token never gets the privilege; a direct call of
\* EnableCurrentThreadPrivilege on a thread that is not impersonating adjusts
\* nothing.
C3_AdjustOnlyInScope ==
    /\ procPriv = FALSE
    /\ \A t \in Threads : tokPriv[t] => imp[t]
    /\ \A g \in Goroutines : \A i \in DOMAIN adjusts[g] :
           /\ adjusts[g][i].scoped
           /\ adjusts[g][i].token = [kind |-> "thread", m |-> adjusts[g][i].m]
           /\ adjusts[g][i].tokenOpen

\* One goroutine has adjusted its thread's token inside StartProcessAsChild
\* while another one's direct EnableCurrentThreadPrivilege found no token.
C3_Witness ==
    \E g, h \in Goroutines :
        /\ Launched(g) /\ adjusts[g] # <<>> /\ adjusts[g][1].err = Nil
        /\ op[h] = "EnableCurrentThreadPrivilege" /\ Done(h)
        /\ result[h] = "ERROR_NO_TOKEN" /\ adjusts[h] = <<>>

\* C4: when GetShellWindow returns 0, StartProcessAsCurrentGUIUser returns the
\* ErrNoShell failure (as its "failed to find desktop" error) and has made no
\* other call: no impersonation, privilege adjustment, process open or
\* process creation.
C4_NoShellNoLaunch ==
    \A g \in Goroutines :
        (Done(g) /\ op[g] = "StartProcessAsCurrentGUIUser" /\ loc[g].hwnd = 0) =>
            /\ result[g] = "failed to find desktop: no Shell process is present"
            /\ \A i \in DOMAIN log[g] : log[g][i].call = "GetShellWindow"
            /\ adjusts[g] = <<>> /\ starts[g] = <<>>
            /\ \A h \in HandleNames : opens[g][h] = 0

\* StartProcessAsCurrentGUIUser has returned after finding no shell window.
C4_Witness ==
    \E g \in Goroutines :
        /\ Done(g) /\ op[g] = "StartProcessAsCurrentGUIUser" /\ loc[g].hwnd = 0
        /\ Len(log[g]) = 1

\* C5: the target process is opened only after EnableCurrentThreadPrivilege
\* has succeeded: every OpenProcess follows a successful AdjustTokenPrivileges
\* of the same invocation, and once a step of the elevation has failed no
\* OpenProcess is made.
C5_OpenAfterElevation ==
    \A g \in Goroutines : \A i \in Made(g, "OpenProcess") :
        /\ \E j \in 1..(i - 1) :
               log[g][j].call = "AdjustTokenPrivileges" /\ log[g][j].err = Nil
        /\ \A j \in 1..(i - 1) :
               log[g][j].call \in ElevationCalls => log[g][j].err = Nil

\* An invocation whose privilege adjustment failed has returned without
\* opening the target process.
C5_Witness ==
    \E g \in Goroutines :
        /\ Done(g) /\ op[g] = "StartProcessAsChild"
        /\ FailedAt(g, "AdjustTokenPrivileges")
        /\ Made(g, "OpenProcess") = {}

\* C6: the environment block handed to process creation is the target's
\* environment followed by extraEnv: the target's entries come first,
\* unchanged and in order, the extraEnv entries follow in order, and nothing
\* is dropped, merged or reordered, duplicate keys included.
C6_EnvIsTargetThenExtra ==
    \A g \in Goroutines : \A i \in DOMAIN starts[g] :
        LET env == starts[g][i].env
            E   == starts[g][i].targetEnv
            X   == args[g].extraEnv
        IN  /\ Len(env) = Len(E) + Len(X)
            /\ \A k \in 1..Len(E) : env[k] = E[k]
            /\ \A k \in 1..Len(X) : env[Len(E) + k] = X[k]

\* Process creation was handed target entries and extra entries that share a
\* key.
C6_Witness ==
    \E g \in Goroutines :
        /\ starts[g] # <<>>
        /\ starts[g][1].targetEnv = <<"A=1", "A=2">>
        /\ args[g].extraEnv = <<"A=2", "A=1">>
        /\ starts[g][1].env = <<"A=1", "A=2", "A=2", "A=1">>

\* C7: in StartProcessAsChild the goroutine is wired to one OS thread before
\* ImpersonateSelf and stays wired until RevertToSelf has run: every call of
\* the sequence, the revert included, runs wired and on the thread the
\* invocation was wired to, and a thread impersonates only while a goroutine
\* is wired to it.
C7_PinnedThroughScope ==
    /\ \A g \in Goroutines : Launched(g) =>
           \A i \in DOMAIN log[g] :
               log[g][i].call \in SequenceCalls \cup {"t.Close", "CloseHandle", "pt.Close", "RevertToSelf"}
                   => log[g][i].pinned /\ log[g][i].m = loc[g].m0
    /\ \A t \in Threads : imp[t] => \E g \in Goroutines : locked[g] /\ m[g] = t

\* An invocation has created the process and returned: every call of the
\* sequence was made.
C7_Witness ==
    \E g \in Goroutines :
        /\ Done(g) /\ Launched(g) /\ Succeeded(g, "Start")
        /\ Made(g, "RevertToSelf") # {}

\* The error a completed launch must report, read from its own calls: the
\* error of its first failed call, none when no call failed.
FirstFailure(g) ==
    IF \E i \in DOMAIN log[g] : log[g][i].err # Nil
    THEN log[g][CHOOSE i \in DOMAIN log[g] :
                  /\ log[g][i].err # Nil
                  /\ \A j \in 1..(i - 1) : log[g][j].err = Nil].err
    ELSE Nil
FirstFailedCall(g) ==
    log[g][CHOOSE i \in DOMAIN log[g] :
              /\ log[g][i].err # Nil
              /\ \A j \in 1..(i - 1) : log[g][j].err = Nil].call
HasFailure(g) == \E i \in DOMAIN log[g] : log[g][i].err # Nil

\* C8 (state part): a thread impersonates exactly while the invocation wired
\* to it is inside its impersonation scope; inside StartProcessAsChild,
\* OpenThreadToken never finds the thread without a token; and a returned
\* invocation reports the first error of its own calls and has released its
\* own handles, whatever the other goroutine did.
C8_OwnThreadOnly ==
    /\ \A t \in Threads :
           imp[t] <=> \E g \in Goroutines :
                         /\ locked[g] /\ m[g] = t
                         /\ \E i \in 1..Len(defers[g]) : defers[g][i] = "RevertToSelf"
    /\ \A g \in Goroutines : Launched(g) =>
           /\ \A i \in Made(g, "OpenThreadToken") : log[g][i].err # "ERROR_NO_TOKEN"
           /\ \A i \in DOMAIN log[g] : log[g][i].call \in SequenceCalls => log[g][i].scoped
                                        \/ log[g][i].call = "ImpersonateSelf"
           /\ Done(g) =>
                /\ \A h \in HandleNames : closes[g][h] = opens[g][h]
                /\ op[g] = "StartProcessAsChild" => result[g] = FirstFailure(g)

\* C8 (step part): a step changes the impersonation state or the enabled
\* privilege of a thread only if it is a step of the goroutine wired to that
\* thread.
C8_StepOwnThread ==
    \A t \in Threads :
        (imp'[t] # imp[t] \/ tokPriv'[t] # tokPriv[t]) =>
            \E g \in Goroutines :
                /\ log'[g] # log[g]
                /\ m[g] = t
                /\ locked[g] \/ locked'[g]

\* C8: concurrent invocations of StartProcessAsChild, each wired to its own
\* thread, do not touch each other's impersonation state, and each returns
\* the result and releases the resources it would alone.
C8_NoInterference == [](C8_OwnThreadOnly) /\ [][C8_StepOwnThread]_vars

\* Two invocations are inside their impersonation scopes at once, on two
\* threads, one with the privilege enabled and one without.
C8_Witness ==
    \E g, h \in Goroutines :
        /\ g # h /\ locked[g] /\ locked[h] /\ m[g] # m[h]
        /\ imp[m[g]] /\ imp[m[h]]
        /\ tokPriv[m[g]] /\ ~tokPriv[m[h]]
        /\ pc[h] = "OpenProcess"

\* C9: StartProcessAsChild is linear: after the first failed step no further
\* step of the sequence is made (only releases follow), process creation is
\* not invoked, and the invocation returns an error.
C9_FirstFailureAborts ==
    \A g \in Goroutines : Launched(g) =>
        \A i \in DOMAIN log[g] :
            (log[g][i].call \in SequenceCalls /\ log[g][i].err # Nil) =>
                /\ \A j \in (i + 1)..Len(log[g]) : log[g][j].call \in ReleaseCalls
                /\ log[g][i].call # "Start" => starts[g] = <<>>
                /\ Len(starts[g]) <= 1
                /\ pc[g] \in {"ectp_return", "unwind", "done"}
                /\ Done(g) => result[g] # Nil

\* An invocation whose target-token open failed has returned an error, the
\* process handle it had opened closed, nothing created.
C9_Witness ==
    \E g \in Goroutines :
        /\ Done(g) /\ op[g] = "StartProcessAsChild"
        /\ FailedAt(g, "OpenProcessToken")
        /\ opens[g]["ph"] = 1 /\ closes[g]["ph"] = 1
        /\ starts[g] = <<>> /\ result[g] # Nil

\* The steps whose failures the error taxonomy names.
NamedSteps == {"ImpersonateSelf", "LookupPrivilegeValue", "AdjustTokenPrivileges",
               "OpenProcess", "OpenProcessToken", "Environ", "Start"}

C11_EntryPointComposes ==
    \A g \in Goroutines : op[g] = "StartProcessAsCurrentGUIUser" =>
        LET locatorOk == loc[g].hwnd # 0 /\ loc[g].wpid # 0 IN
        /\ Cardinality(Made(g, "LockOSThread")) <= 1
        /\ Made(g, "LockOSThread") # {} =>
              /\ locatorOk
              /\ args[g].parentPID = loc[g].wpid
              /\ args[g].exePath = loc[g].exePath
              /\ args[g].extraEnv = loc[g].extraEnv
        /\ Done(g) =>
              /\ result[g] = Nil <=> (locatorOk /\ ~HasFailure(g))
              /\ locatorOk => Cardinality(Made(g, "LockOSThread")) = 1
              /\ ~locatorOk =>
                    /\ Made(g, "LockOSThread") = {}
                    /\ result[g] \in
                         {"failed to find desktop: no Shell process is present",
                          "failed to find desktop: invalid PID for HWND "
                              \o ToString(loc[g].hwnd)}
              /\ (locatorOk /\ HasFailure(g)) =>
                    result[g] = "failed to start executable: " \o FirstFailure(g)

\* StartProcessAsCurrentGUIUser has returned nil after the spawner created
\* b.exe under the desktop process with the caller's two extra entries.
C11_Witness ==
    \E g \in Goroutines :
        /\ Done(g) /\ op[g] = "StartProcessAsCurrentGUIUser" /\ result[g] = Nil
        /\ args[g].parentPID = 4 /\ loc[g].wpid = 4
        /\ Len(starts[g]) = 1 /\ starts[g][1].exePath = "b.exe"
        /\ args[g].extraEnv = <<"A=2", "A=1">>

\* The processes an invocation has created.
Created(g) == {i \in DOMAIN starts[g] : starts[g][i].err = Nil}

\* C12: a launch has no partial success: it returns nil exactly when it
\* created one process and an error exactly when it created none, and when it
\* returns it holds nothing it acquired: no open token or process handle, no
\* deferred call left, no impersonation on its thread, no thread pin.
C12_NoPartialSuccess ==
    \A g \in Goroutines :
        /\ Cardinality(Created(g)) <= 1
        /\ (Done(g) /\ Launched(g)) =>
              /\ result[g] = Nil <=> Cardinality(Created(g)) = 1
              /\ result[g] # Nil <=> Created(g) = {}
              /\ \A h \in HandleNames : ~IsOpen(g, h) /\ closes[g][h] = opens[g][h]
              /\ defers[g] = <<>> /\ deferE[g] = <<>>
              /\ ~locked[g]
              /\ Made(g, "LockOSThread") # {} =>
                    ~imp[loc[g].m0] /\ ~tokPriv[loc[g].m0]

\* A launch has returned nil with its one process created, its handles
\* closed and its thread released.
C12_Witness ==
    \E g \in Goroutines :
        /\ Done(g) /\ Launched(g) /\ result[g] = Nil
        /\ Cardinality(Created(g)) = 1
        /\ opens[g]["pt"] = 1 /\ closes[g]["pt"] = 1
        /\ ~locked[g] /\ ~imp[loc[g].m0]

\* The error of lines 38-40 for a window handle.
InvalidPID(hwnd) == "invalid PID for HWND " \o ToString(hwnd)

\* C13: when the desktop window exists but its owning process id is zero,
\* GetDesktopPID returns the "invalid PID for HWND" error that carries the
\* window handle, which is not ErrNoShell, StartProcessAsCurrentGUIUser
\* returns it wrapped without calling the spawner, and GetDesktopPID returns
\* a nil error only with a process id that is not zero.
C13_InvalidPidReported ==
    \A g \in Goroutines :
        (Done(g) /\ Made(g, "GetShellWindow") # {}) =>
            /\ (loc[g].hwnd # 0 /\ loc[g].wpid = 0) =>
                  /\ loc[g].desktop = 0
                  /\ op[g] = "GetDesktopPID" =>
                        /\ result[g] = InvalidPID(loc[g].hwnd)
                        /\ result[g] # ErrNoShell
                        /\ \A h \in Hwnds \ {loc[g].hwnd} : result[g] # InvalidPID(h)
                  /\ op[g] = "StartProcessAsCurrentGUIUser" =>
                        /\ result[g] = "failed to find desktop: " \o InvalidPID(loc[g].hwnd)
                        /\ Made(g, "LockOSThread") = {}
                        /\ starts[g] = <<>> /\ adjusts[g] = <<>>
                        /\ \A h \in HandleNames : opens[g][h] = 0
            /\ (op[g] = "GetDesktopPID" /\ result[g] = Nil) =>
                  loc[g].desktop # 0 /\ loc[g].desktop = loc[g].wpid
            /\ (op[g] = "StartProcessAsCurrentGUIUser" /\ Made(g, "LockOSThread") # {}) =>
                  loc[g].desktop # 0

\* The entry point has returned the wrapped error for window 2, whose owning
\* process id was zero.
C13_Witness ==
    \E g \in Goroutines :
        /\ Done(g) /\ op[g] = "StartProcessAsCurrentGUIUser"
        /\ loc[g].hwnd = 2 /\ loc[g].wpid = 0
        /\ result[g] = "failed to find desktop: invalid PID for HWND 2"
        /\ Made(g, "GetWindowThreadProcessId") # {}

\* The goroutine is inside the impersonation scope of a launch: wired to its
\* thread, with the revert of line 186 still to run.
InScope(g) ==
    /\ locked[g]
    /\ \E i \in DOMAIN defers[g] : defers[g][i] = "RevertToSelf"

\* C14: the privilege enabled during a launch is in effect only inside that
\* launch's impersonation scope: a thread has the debug privilege enabled only
\* while a goroutine wired to it is inside the scope and has adjusted its
\* token, so no other work on that thread, and no later launch before its own
\* adjustment, sees it enabled, and it is off when the launch has returned,
\* with or without an error.
C14_PrivilegeEndsWithScope ==
    /\ \A t \in Threads :
          tokPriv[t] =>
              \E g \in Goroutines :
                  /\ m[g] = t /\ InScope(g)
                  /\ \E i \in DOMAIN adjusts[g] : adjusts[g][i].enabled
    /\ \A g \in Goroutines :
          /\ (m[g] # NoThread /\ Runnable(g) /\ ~InScope(g)) => ~tokPriv[m[g]]
          /\ (InScope(g) /\ adjusts[g] = <<>>) => ~tokPriv[m[g]]
          /\ (Done(g) /\ Made(g, "LockOSThread") # {}) =>
                \/ ~tokPriv[loc[g].m0]
                \/ \E h \in Goroutines \ {g} : m[h] = loc[g].m0 /\ InScope(h)

\* A launch that enabled the privilege has returned an error, and the thread
\* it ran on, now running the other goroutine, has the privilege off.
C14_Witness ==
    \E g, h \in Goroutines :
        /\ g # h
        /\ Done(g) /\ result[g] # Nil
        /\ \E i \in DOMAIN adjusts[g] : adjusts[g][i].enabled
        /\ m[h] = loc[g].m0 /\ Runnable(h) /\ ~InScope(h)
        /\ pc[h] \notin {"idle", "done"}
        /\ ~tokPriv[m[h]]

\* Where in the call log a call returned without an error.
SucceededAt(g, call) == {i \in Made(g, call) : log[g][i].err = Nil}

\* C15: every process creation of StartProcessAsChild is made with the
\* parent-process attribute equal to the target-process handle opened earlier
\* in the same invocation, while that handle, the target token and the
\* impersonation scope are still open; the handle and the token are released
\* only after the creation call has returned, with or without an error.
C15_CreationInsideOpenScope ==
    \A g \in Goroutines : \A i \in DOMAIN starts[g] :
        LET st == Made(g, "Start") IN
        /\ starts[g][i].sys.ParentProcess = loc[g].ph
        /\ loc[g].ph = args[g].parentPID /\ loc[g].ph # 0
        /\ starts[g][i].phOpen /\ starts[g][i].ptOpen
        /\ starts[g][i].scoped /\ starts[g][i].pinned
        /\ \E o \in SucceededAt(g, "OpenProcess"), k \in SucceededAt(g, "OpenProcessToken") :
               \A j \in st : o < k /\ k < j
        /\ \A j \in st :
               \A c \in Made(g, "CloseHandle") \cup Made(g, "pt.Close")
                          \cup Made(g, "RevertToSelf") : j < c
        /\ Done(g) =>
               /\ Cardinality(Made(g, "CloseHandle")) = 1
               /\ Cardinality(Made(g, "pt.Close")) = 1
               /\ ~IsOpen(g, "ph") /\ ~IsOpen(g, "pt")

\* A creation call that failed was made under the target's handle, and the
\* handle and the token were closed after it.
C15_Witness ==
    \E g \in Goroutines :
        /\ Done(g) /\ Len(starts[g]) = 1
        /\ starts[g][1].err # Nil
        /\ starts[g][1].sys.ParentProcess = 8
        /\ starts[g][1].phOpen /\ starts[g][1].ptOpen
        /\ closes[g]["ph"] = 1 /\ closes[g]["pt"] = 1

\* C16: on every exit path of StartProcessAsChild the thread pin taken at
\* entry is released exactly once, as the last thing the invocation does and
\* so after the impersonation revert where there is one; when ImpersonateSelf
\* itself fails the pin is still released, RevertToSelf is not called, and no
\* privilege elevation and no process open is attempted.
C16_PinReleasedLast ==
    \A g \in Goroutines :
        LET locks   == Made(g, "LockOSThread")
            unlocks == Made(g, "UnlockOSThread")
            reverts == Made(g, "RevertToSelf")
        IN
        /\ Cardinality(locks) <= 1 /\ Cardinality(unlocks) <= Cardinality(locks)
        /\ locked[g] <=> (locks # {} /\ unlocks = {})
        /\ \A u \in unlocks : \A r \in reverts : r < u
        /\ \A u \in unlocks : u = Len(log[g]) /\ \A l \in locks : l < u
        /\ (Done(g) /\ locks # {}) => Cardinality(unlocks) = 1
        /\ FailedAt(g, "ImpersonateSelf") =>
              /\ reverts = {}
              /\ \A c \in ElevationCalls \cup {"OpenProcess", "OpenProcessToken", "Start"} :
                     Made(g, c) = {}
              /\ adjusts[g] = <<>> /\ opens[g]["ph"] = 0
              /\ Done(g) => Cardinality(unlocks) = 1 /\ ~locked[g] /\ result[g] # Nil

\* ImpersonateSelf has failed and the invocation has returned with the pin
\* released and no revert made.
C16_Witness ==
    \E g \in Goroutines :
        /\ Done(g) /\ FailedAt(g, "ImpersonateSelf")
        /\ Cardinality(Made(g, "UnlockOSThread")) = 1
        /\ Made(g, "RevertToSelf") = {}
        /\ ~locked[g]

\* C17: one call of EnableCurrentThreadPrivilege makes at most one privilege
\* adjustment, only after the thread token was opened and the privilege name
\* looked up, and the adjustment names exactly one entry, the looked-up
\* privilege, as enabled; when opening the token or the lookup fails nothing
\* is adjusted and no token's privileges change.
C17_OneAdjustmentAfterLookup ==
    \A g \in Goroutines :
        LET adj == Made(g, "AdjustTokenPrivileges") IN
        /\ Len(adjusts[g]) <= 1 /\ Cardinality(adj) = Len(adjusts[g])
        /\ Cardinality(Made(g, "LookupPrivilegeValue")) <= 1
        /\ Cardinality(Made(g, "OpenThreadToken")) <= 1
        /\ \A i \in DOMAIN adjusts[g] :
              /\ adjusts[g][i].tp.PrivilegeCount = 1
              /\ Len(adjusts[g][i].tp.Privileges) = 1
              /\ adjusts[g][i].tp.Privileges[1].Luid = loc[g].luid
              /\ loc[g].luid \in KnownPrivileges
              /\ Launched(g) => loc[g].luid = "SeDebugPrivilege"
              /\ adjusts[g][i].tp.Privileges[1].Attributes = "SE_PRIVILEGE_ENABLED"
              /\ adjusts[g][i].enabled => adjusts[g][i].err = Nil
              /\ \A a \in adj :
                    \E o \in SucceededAt(g, "OpenThreadToken"),
                       l \in SucceededAt(g, "LookupPrivilegeValue") : o < l /\ l < a
        /\ (FailedAt(g, "OpenThreadToken") \/ FailedAt(g, "LookupPrivilegeValue")) =>
              /\ adjusts[g] = <<>> /\ adj = {}
              /\ m[g] # NoThread => ~tokPriv[m[g]]
        /\ (adjusts[g] = <<>> /\ m[g] # NoThread) => ~tokPriv[m[g]]

\* A launch has returned after its one adjustment enabled SeDebugPrivilege on
\* the thread token.
C17_Witness ==
    \E g \in Goroutines :
        /\ Done(g) /\ op[g] = "StartProcessAsChild"
        /\ Len(adjusts[g]) = 1 /\ adjusts[g][1].enabled
        /\ adjusts[g][1].tp.Privileges[1].Luid = "SeDebugPrivilege"
        /\ adjusts[g][1].token.kind = "thread"

\* The platform calls of one invocation of StartProcessAsCurrentGUIUser.
PlatformCalls == {"GetShellWindow", "GetWindowThreadProcessId"} \cup SequenceCalls

\* No call is made twice, and nothing but releases follows a failed call.
NothingRetried(g) ==
    /\ \A c \in PlatformCalls : Cardinality(Made(g, c)) <= 1
    /\ \A i \in DOMAIN log[g] : log[g][i].err # Nil =>
           \A j \in (i + 1)..Len(log[g]) : log[g][j].call \in ReleaseCalls

\* C18: in one invocation of StartProcessAsCurrentGUIUser every platform call
\* is made at most once and nothing but releases follows a failure, and, as
\* long as every call returns, the invocation eventually returns a result.
C18_NoRetryAndTerminates ==
    /\ [](\A g \in Goroutines :
             op[g] = "StartProcessAsCurrentGUIUser" => NothingRetried(g))
    /\ \A g \in MainGoroutine :
          (op[g] = "StartProcessAsCurrentGUIUser" /\ pc[g] # "idle") ~> Done(g)

\* The entry point has returned after making each platform call exactly once.
C18_Witness ==
    \E g \in Goroutines :
        /\ Done(g) /\ op[g] = "StartProcessAsCurrentGUIUser"
        /\ \A c \in PlatformCalls : Cardinality(Made(g, c)) = 1
        /\ Len(log[g]) = 16

\* The name has a value under the key, of whatever type.
Present(store, subKey, name) ==
    store[subKey].exists /\ store[subKey].vals[name].type # "none"

\* The name has a value under the key that the lookup can read: the key opens
\* and the value has the type asked for.
Readable(store, subKey, name, type) ==
    /\ store[subKey].exists /\ store[subKey].access = "read"
    /\ store[subKey].vals[name].type = type

\* The registry type the last lookup asked for.
AskedType == IF lookup.fn = "getPolicyString" THEN "SZ" ELSE "DWORD"

\* C19 as stated: the lookup returns the policy value when the name is
\* present under the policy key, otherwise the legacy value when it is present
\* there, and the default only when it is absent from both.
C19_TieredByPresence ==
    lookup.fn # "none" =>
        /\ Present(reg, regPolicyBase, lookup.name) => lookup.src = "policy"
        /\ (~Present(reg, regPolicyBase, lookup.name) /\ Present(reg, regBase, lookup.name))
              => lookup.src = "legacy"
        /\ lookup.src = "default" =>
              ~Present(reg, regPolicyBase, lookup.name) /\ ~Present(reg, regBase, lookup.name)

\* The value a lookup returned when it found the store as it now is.
TieredResult ==
    LET cell(subKey) == reg[subKey].vals[lookup.name]
        pol == Readable(reg, regPolicyBase, lookup.name, AskedType)
        leg == Readable(reg, regBase, lookup.name, AskedType)
    IN
    /\ lookup.src = "policy" <=> pol
    /\ lookup.src = "legacy" <=> (~pol /\ leg)
    /\ lookup.src = "default" <=> (~pol /\ ~leg)
    /\ lookup.s = IF lookup.fn # "getPolicyString" THEN ""
                  ELSE IF pol THEN cell(regPolicyBase).s
                  ELSE IF leg THEN cell(regBase).s ELSE lookup.defs
    /\ lookup.i = IF lookup.fn # "getPolicyInteger" THEN 0
                  ELSE IF pol THEN cell(regPolicyBase).i
                  ELSE IF leg THEN cell(regBase).i ELSE lookup.defi

\* C19, amended: the lookup returns the policy value when the policy key
\* opens and holds the name with the type asked for, otherwise the legacy
\* value under the same condition, otherwise the default; the default is
\* returned exactly when neither key yields a readable value of that type,
\* which includes a value present with another type or under a key that
\* cannot be opened; and no lookup changes the store.
C19_TieredByReadable ==
    /\ [](lookup.fn # "none" => TieredResult)
    /\ [][reg' = reg]_vars

\* getPolicyString skipped an integer under the policy key and returned the
\* string under the legacy key.
C19_Witness ==
    /\ lookup.fn = "getPolicyString"
    /\ reg[regPolicyBase].exists /\ reg[regPolicyBase].vals[lookup.name].type = "DWORD"
    /\ Readable(reg, regBase, lookup.name, "SZ")
    /\ lookup.src = "legacy" /\ lookup.s = "file"

\* Where in the Config the peers with the key of the last call are.
Matches == {i \in DOMAIN config.Peers : config.Peers[i].PublicKey = found.k}

\* C20: PeerWithKey returns the first peer of Config.Peers whose PublicKey is
\* k, with true, when there is one, and the zero Peer with false otherwise;
\* it returns true exactly when some peer has the key, and it leaves the
\* Config as it was.
C20_FirstPeerWithKey ==
    /\ [](found.called =>
             /\ found.ok <=> Matches # {}
             /\ Matches # {} =>
                   \E i \in Matches :
                       /\ \A j \in Matches : i <= j
                       /\ found.peer = config.Peers[i]
             /\ Matches = {} => found.peer = ZeroPeer)
    /\ [][config' = config]_vars

\* Two peers have the key and differ; the call returned the first of them.
C20_Witness ==
    /\ found.called /\ found.ok
    /\ \E i, j \in Matches :
          /\ i < j /\ config.Peers[i] # config.Peers[j]
          /\ \A h \in Matches : i <= h
          /\ found.peer = config.Peers[i]
    /\ Len(config.Peers) = 3 /\ config.Peers[1].PublicKey # found.k

====
